---- MODULE Spec2Model ----
(***************************************************************************)
(* A model of the YouTube comments API (youtube-comments-api/src/server.ts) *)
(* over its ScyllaDB tables.  The repository holds two versions of the      *)
(* server, each with its own table layout:                                  *)
(*   "deleteInsert": server.ts lines 1-209 over db-schema.cql, where likes  *)
(*       is a clustering column and a like is a delete plus an insert;      *)
(*   "plainUpdate":  server.ts lines 211-404 over the README's schema,      *)
(*       where the key is (video_id, comment_id) and a like is an UPDATE.   *)
(* Rows are records; a column that is null is a field the record lacks.    *)
(***************************************************************************)
EXTENDS Integers, Sequences, FiniteSets, TLC

\* ---------------------------------------------------------------- bounds
MaxComments == 3
MaxReplies == 2
MaxLikeCalls == 3
MaxFailures == 2
MaxTime == 2
MaxLimit == 2
MaxScanLikes == 1
MaxPostFailures == 1
MaxListFailures == 1
NumCallers == 2

\* ---------------------------------------------------------------- values
Variants == {"deleteInsert", "plainUpdate"}

\* The uuids uuidv4() can return, listed in the order the store compares them.
UuidSeq == <<"c1", "c2", "c3">>
Uuids == {UuidSeq[i] : i \in 1..Len(UuidSeq)}
UuidRank(u) == CHOOSE i \in 1..Len(UuidSeq) : UuidSeq[i] = u

ReplyUuids == {"r1", "r2"}

Videos == {"v1", "v2"}
Undefined == "<undefined>"
Callers == 1..NumCallers

\* JavaScript's !x for a request field: true of the empty string and of a
\* field the request does not carry.
Falsy(x) == x \in {"", Undefined}

VARIABLES
  variant,      \* which version of the server and schema is deployed
  comments,     \* the comments table: a set of rows
  replies,      \* the replies table: a set of rows
  clock,        \* the store's now(), in milliseconds
  uuidsUsed,    \* the uuids uuidv4() has returned so far
  lastPost,     \* the last POST request (a comment or a reply) and its response
  pc,           \* per like request: where its handler stands
  target,       \* per like request: req.params
  result,       \* per like request: result.rows of the select
  response,     \* per like request: the response sent
  likesLeft,    \* like requests the clients may still send
  faultsLeft,   \* storage calls that may still throw
  failedAt,     \* history: the storage call of the request that threw
  removed,      \* history: rows the request's DELETE removed
  nOverlap,     \* history: other like requests on the same comment that ran during this one
  likesDone,    \* history: per (video_id, comment_id), like requests answered 200
  disturbed,    \* history: per (video_id, comment_id), a like request overlapped another or failed
  scan,         \* a client paging through GET /comments/top, and the handler serving it
  writes        \* history: changes made to the comments table so far

vars == <<variant, comments, replies, clock, uuidsUsed, lastPost, pc, target,
          result, response, likesLeft, faultsLeft, failedAt, removed, nOverlap, likesDone, disturbed,
          scan, writes>>

\* ---------------------------------------------------------------- tables

\* PRIMARY KEY of the comments table.
CommentKey(r) ==
  IF variant = "deleteInsert"
    THEN <<r.video_id, r.likes, r.timestamp, r.comment_id>>
    ELSE <<r.video_id, r.comment_id>>

\* INSERT: writes the row, replacing the row of the same primary key.
InsertRow(table, r) ==
  {x \in table : CommentKey(x) # CommentKey(r)} \cup {r}

\* CLUSTERING ORDER BY (likes DESC, timestamp DESC, comment_id ASC): a precedes b.
ClusterBefore(a, b) ==
  IF variant = "deleteInsert"
    THEN \/ a.likes > b.likes
         \/ a.likes = b.likes /\ a.timestamp > b.timestamp
         \/ a.likes = b.likes /\ a.timestamp = b.timestamp
              /\ UuidRank(a.comment_id) < UuidRank(b.comment_id)
    ELSE UuidRank(a.comment_id) < UuidRank(b.comment_id)

\* The rows of a set, in the partition's clustering order.
RECURSIVE InOrder(_)
InOrder(S) ==
  IF S = {} THEN <<>>
  ELSE LET first == CHOOSE r \in S : \A x \in S \ {r} : ClusterBefore(r, x)
       IN <<first>> \o InOrder(S \ {first})

\* SELECT ... WHERE video_id = ? AND comment_id = ?
SelectComment(table, v, c) ==
  InOrder({r \in table : r.video_id = v /\ r.comment_id = c})

\* A DELETE whose WHERE clause names the partition alone.
DeleteRowPartition(table, v, l, t, c) ==
  {r \in table : r.video_id # v}

\* A DELETE that leaves likes and timestamp out of its WHERE clause.
DeleteRowAnyLikes(table, v, l, t, c) ==
  {r \in table : ~(r.video_id = v /\ r.comment_id = c)}

\* DELETE ... WHERE video_id = ? AND likes = ? AND timestamp = ? AND comment_id = ?
DeleteRow(table, v, l, t, c) ==
  {r \in table : ~(r.video_id = v /\ r.likes = l /\ r.timestamp = t /\ r.comment_id = c)}

\* ---------------------------------------------------------------- storage calls
NoResponse == [status |-> 0, body |-> [message |-> "none"]]

\* How an awaited client.execute can end: it answers, or it throws.
Outcomes == IF faultsLeft > 0 THEN {"ok", "throws"} ELSE {"ok"}

Counted(outcome) == faultsLeft' = faultsLeft - (IF outcome = "ok" THEN 0 ELSE 1)

\* History: one more change of the comments table, when the step changes it.
Written == writes' = writes + (IF comments' = comments THEN 0 ELSE 1)

\* ---------------------------------------------------------------- POST /comments

\* A validation that does not look at content.
AddCommentInvalidNoContent(video_id, user_id, content) ==
  Falsy(video_id) \/ Falsy(user_id)

AddCommentInvalid(video_id, user_id, content) ==
  Falsy(video_id) \/ Falsy(user_id) \/ Falsy(content)

\* A row that starts at one like.
NewCommentRowLiked(video_id, comment_id, user_id, content, now) ==
  [video_id |-> video_id, comment_id |-> comment_id, user_id |-> user_id,
   content |-> content, likes |-> 1, replies_count |-> 0, timestamp |-> now]

NewCommentRow(video_id, comment_id, user_id, content, now) ==
  [video_id |-> video_id, comment_id |-> comment_id, user_id |-> user_id,
   content |-> content, likes |-> 0, replies_count |-> 0, timestamp |-> now]

AddCommentRejected ==
  [status |-> 400, body |-> [error |-> "video_id, user_id, and content are required"]]
AddCommentCreated(comment_id) ==
  [status |-> 201, body |-> [message |-> "Comment added", comment_id |-> comment_id]]
AddCommentFailed ==
  [status |-> 500, body |-> [error |-> "An error occurred while adding the comment"]]

\* The handler, on one request body.
AddCommentReq(video_id, user_id, content) ==
  LET req == [video_id |-> video_id, user_id |-> user_id, content |-> content] IN
  /\ IF AddCommentInvalid(video_id, user_id, content)
       THEN /\ lastPost' = [op |-> "comment", req |-> req, res |-> AddCommentRejected]
            /\ UNCHANGED <<comments, clock, uuidsUsed, faultsLeft>>
       ELSE /\ Cardinality(uuidsUsed \cap Uuids) < MaxComments
            /\ \E comment_id \in Uuids \ uuidsUsed, now \in {clock, clock + 1},
                  outcome \in Outcomes :
                 /\ now <= MaxTime
                 /\ uuidsUsed' = uuidsUsed \cup {comment_id}
                 /\ Counted(outcome)
                 /\ IF outcome = "ok"
                      THEN /\ comments' = InsertRow(comments,
                                  NewCommentRow(video_id, comment_id, user_id, content, now))
                           /\ clock' = now
                           /\ lastPost' = [op |-> "comment", req |-> req, res |-> AddCommentCreated(comment_id)]
                      ELSE /\ UNCHANGED <<comments, clock>>
                           /\ lastPost' = [op |-> "comment", req |-> req, res |-> AddCommentFailed]
  /\ Written
  /\ UNCHANGED <<scan, variant, replies, pc, target, result, response, likesLeft,
                 failedAt, removed, nOverlap, likesDone, disturbed>>

\* Any request body: each field a value, the empty string, or left out.
AddCommentAbout(videos) ==
  \E video_id \in videos \cup {"", Undefined},
     user_id \in {"u1", "", Undefined},
     content \in {"hi", "", Undefined} :
    AddCommentReq(video_id, user_id, content)

AddComment == AddCommentAbout(Videos)

\* The same, with every named video the same one.
AddCommentAboutOneVideo == AddCommentAbout({"v1"})

\* A request body that carries all three fields.
AddValidComment ==
  \E video_id \in Videos : AddCommentReq(video_id, "u1", "hi")

\* The same, about one video.
AddCommentOneVideo == AddCommentReq("v1", "u1", "hi")

\* ---------------------------------------------------------------- POST /comments/:comment_id/replies

AddReplyInvalid(comment_id, user_id, content) ==
  Falsy(comment_id) \/ Falsy(user_id) \/ Falsy(content)

NewReplyRow(reply_id, comment_id, user_id, content, now) ==
  [reply_id |-> reply_id, comment_id |-> comment_id, user_id |-> user_id,
   content |-> content, timestamp |-> now]

\* A replies table keyed by comment_id alone.
InsertReplyPerComment(table, r) ==
  {x \in table : x.comment_id # r.comment_id} \cup {r}

\* PRIMARY KEY (comment_id, reply_id) of the replies table.
InsertReply(table, r) ==
  {x \in table : ~(x.comment_id = r.comment_id /\ x.reply_id = r.reply_id)} \cup {r}

AddReplyRejected ==
  [status |-> 400, body |-> [error |-> "comment_id, user_id, and content are required"]]
AddReplyCreated(reply_id) ==
  [status |-> 201, body |-> [message |-> "Reply added", reply_id |-> reply_id]]
AddReplyFailed ==
  [status |-> 500, body |-> [error |-> "An error occurred while adding the reply"]]

\* The handler, on one request.
AddReplyReq(comment_id, user_id, content) ==
  LET req == [comment_id |-> comment_id, user_id |-> user_id, content |-> content] IN
  /\ IF AddReplyInvalid(comment_id, user_id, content)
       THEN /\ lastPost' = [op |-> "reply", req |-> req, res |-> AddReplyRejected]
            /\ UNCHANGED <<replies, clock, uuidsUsed, faultsLeft>>
       ELSE /\ Cardinality(uuidsUsed \cap ReplyUuids) < MaxReplies
            /\ \E reply_id \in ReplyUuids \ uuidsUsed, now \in {clock, clock + 1},
                  outcome \in Outcomes :
                 /\ now <= MaxTime
                 /\ uuidsUsed' = uuidsUsed \cup {reply_id}
                 /\ Counted(outcome)
                 /\ IF outcome = "ok"
                      THEN /\ replies' = InsertReply(replies,
                                  NewReplyRow(reply_id, comment_id, user_id, content, now))
                           /\ clock' = now
                           /\ lastPost' = [op |-> "reply", req |-> req, res |-> AddReplyCreated(reply_id)]
                      ELSE /\ UNCHANGED <<replies, clock>>
                           /\ lastPost' = [op |-> "reply", req |-> req, res |-> AddReplyFailed]
  /\ UNCHANGED <<scan, writes, variant, comments, pc, target, result, response, likesLeft,
                 failedAt, removed, nOverlap, likesDone, disturbed>>

\* Any request: each field a value, the empty string, or left out.
AddReplyAbout(ids) ==
  \E comment_id \in ids \cup {"", Undefined},
     user_id \in {"u1", "", Undefined},
     content \in {"hi", "", Undefined} :
    AddReplyReq(comment_id, user_id, content)

AddReply == AddReplyAbout(Uuids)

\* The same, with every named comment_id the same one.
AddReplyAboutOneComment == AddReplyAbout({"c1"})

\* A request that carries all three fields, about that comment_id.
AddReplyOneComment == AddReplyReq("c1", "u1", "hi")

\* ---------------------------------------------------------------- PUT /comments/:video_id/:comment_id/like

\* The other like requests in flight on the same comment.
InFlight(p, t) == {q \in Callers \ {p} : pc[q] # "idle" /\ target[q] = t}

LikeFailed ==
  [status |-> 500, body |-> [error |-> "An error occurred while updating likes"]]
LikeNotFound ==
  [status |-> 404, body |-> [error |-> "Comment not found"]]
LikeAdded(newLikes) ==
  [status |-> 200, body |-> [message |-> "Like added", likes |-> newLikes]]
LikeAddedPlain ==
  [status |-> 200, body |-> [message |-> "Like added"]]

\* const newLikes = comment.likes + 1
NewLikes(comment) == comment.likes + 1

\* An insert that does not carry the content over.
LikedRowBlank(video_id, comment_id, comment) ==
  [video_id |-> video_id, comment_id |-> comment_id, user_id |-> comment.user_id,
   content |-> "", likes |-> comment.likes + 1,
   replies_count |-> comment.replies_count, timestamp |-> comment.timestamp]

\* An insert that stamps the row with toTimestamp(now()) again.
LikedRowRestamped(video_id, comment_id, comment) ==
  [video_id |-> video_id, comment_id |-> comment_id, user_id |-> comment.user_id,
   content |-> comment.content, likes |-> comment.likes + 1,
   replies_count |-> comment.replies_count, timestamp |-> comment.timestamp + 1]

\* The row the like handler inserts: the row read, with newLikes.
LikedRow(video_id, comment_id, comment) ==
  [video_id |-> video_id, comment_id |-> comment_id, user_id |-> comment.user_id,
   content |-> comment.content, likes |-> NewLikes(comment),
   replies_count |-> comment.replies_count, timestamp |-> comment.timestamp]

\* The catch block: whichever storage call threw, the same 500.
LikeCatch(p, step, t) ==
  /\ pc' = [pc EXCEPT ![p] = "idle"]
  /\ response' = [response EXCEPT ![p] = LikeFailed]
  /\ result' = [result EXCEPT ![p] = <<>>]
  /\ failedAt' = [failedAt EXCEPT ![p] = step]
  /\ disturbed' = [disturbed EXCEPT ![t] = TRUE]

\* History kept when a like request starts working on a comment.
LikeStarts(p, t) ==
  LET others == InFlight(p, t) IN
  /\ nOverlap' = [q \in Callers |->
        IF q = p THEN Cardinality(others)
        ELSE IF q \in others THEN nOverlap[q] + 1
        ELSE nOverlap[q]]
  /\ disturbed' = [disturbed EXCEPT ![t] = @ \/ others # {}]

\* A like request arrives and the handler awaits its select.
LikeSelectIn(p, videos) ==
  /\ variant = "deleteInsert"
  /\ pc[p] = "idle"
  /\ likesLeft > 0
  /\ \E video_id \in videos, comment_id \in Uuids, outcome \in Outcomes :
       LET rows == SelectComment(comments, video_id, comment_id) IN
       /\ target' = [target EXCEPT ![p] = <<video_id, comment_id>>]
       /\ likesLeft' = likesLeft - 1
       /\ removed' = [removed EXCEPT ![p] = 0]
       /\ Counted(outcome)
       /\ UNCHANGED <<comments, likesDone>>
       /\ IF outcome # "ok"
            THEN /\ LikeCatch(p, "select", <<video_id, comment_id>>)
                 /\ nOverlap' = [nOverlap EXCEPT ![p] = 0]
            ELSE /\ failedAt' = [failedAt EXCEPT ![p] = "none"]
                 /\ IF rows = <<>>
                      THEN /\ pc' = [pc EXCEPT ![p] = "idle"]
                           /\ response' = [response EXCEPT ![p] = LikeNotFound]
                           /\ result' = [result EXCEPT ![p] = <<>>]
                           /\ nOverlap' = [nOverlap EXCEPT ![p] = 0]
                           /\ UNCHANGED disturbed
                      ELSE /\ pc' = [pc EXCEPT ![p] = "selected"]
                           /\ response' = [response EXCEPT ![p] = NoResponse]
                           /\ result' = [result EXCEPT ![p] = rows]
                           /\ LikeStarts(p, <<video_id, comment_id>>)
  /\ Written
  /\ UNCHANGED <<scan, variant, replies, clock, uuidsUsed, lastPost>>

LikeSelect(p) == LikeSelectIn(p, Videos)

\* The select has answered with a row; the handler awaits its delete.
LikeDelete(p) ==
  /\ variant = "deleteInsert"
  /\ pc[p] = "selected"
  /\ \E outcome \in Outcomes :
       LET comment == result[p][1] IN
       /\ Counted(outcome)
       /\ IF outcome # "ok"
            THEN /\ LikeCatch(p, "delete", target[p])
                 /\ UNCHANGED <<comments, removed>>
            ELSE /\ comments' = DeleteRow(comments, target[p][1], comment.likes,
                                          comment.timestamp, target[p][2])
                 /\ removed' = [removed EXCEPT ![p] = Cardinality(comments \ comments')]
                 /\ pc' = [pc EXCEPT ![p] = "deleted"]
                 /\ UNCHANGED <<response, result, failedAt, disturbed>>
  /\ Written
  /\ UNCHANGED <<scan, variant, replies, clock, uuidsUsed, lastPost, target,
                 likesLeft, nOverlap, likesDone>>

\* The delete has answered; the handler awaits its insert and responds.
LikeInsert(p) ==
  /\ variant = "deleteInsert"
  /\ pc[p] = "deleted"
  /\ \E outcome \in Outcomes :
       LET comment == result[p][1] IN
       /\ Counted(outcome)
       /\ IF outcome # "ok"
            THEN /\ LikeCatch(p, "insert", target[p])
                 /\ UNCHANGED <<comments, likesDone>>
            ELSE /\ comments' = InsertRow(comments,
                                  LikedRow(target[p][1], target[p][2], comment))
                 /\ pc' = [pc EXCEPT ![p] = "idle"]
                 /\ response' = [response EXCEPT ![p] = LikeAdded(NewLikes(comment))]
                 /\ result' = [result EXCEPT ![p] = <<>>]
                 /\ likesDone' = [likesDone EXCEPT ![target[p]] = @ + 1]
                 /\ UNCHANGED <<failedAt, disturbed>>
  /\ Written
  /\ UNCHANGED <<scan, variant, replies, clock, uuidsUsed, lastPost, target,
                 likesLeft, removed, nOverlap>>

\* ---- the plain-update version of the like handler

\* SELECT likes FROM comments WHERE video_id = ? AND comment_id = ?
SelectLikes(table, v, c) ==
  LET rows == SelectComment(table, v, c)
  IN [i \in 1..Len(rows) |-> [likes |-> rows[i].likes]]

\* result.rows[0]?.likes || 0
CurrentLikes(rows) ==
  IF rows = <<>> THEN 0 ELSE rows[1].likes

\* UPDATE comments SET likes = ? WHERE video_id = ? AND comment_id = ?: sets the
\* column of the row of that key, and writes the row when the table has none.
UpdateLikes(table, likes, v, c) ==
  IF \E r \in table : r.video_id = v /\ r.comment_id = c
    THEN {IF r.video_id = v /\ r.comment_id = c THEN [r EXCEPT !.likes = likes] ELSE r
            : r \in table}
    ELSE table \cup {[video_id |-> v, comment_id |-> c, likes |-> likes]}

LikeSelectPlain(p) ==
  /\ variant = "plainUpdate"
  /\ pc[p] = "idle"
  /\ likesLeft > 0
  /\ \E video_id \in Videos, comment_id \in Uuids, outcome \in Outcomes :
       /\ target' = [target EXCEPT ![p] = <<video_id, comment_id>>]
       /\ likesLeft' = likesLeft - 1
       /\ Counted(outcome)
       /\ UNCHANGED <<comments, likesDone, removed>>
       /\ IF outcome # "ok"
            THEN /\ LikeCatch(p, "select", <<video_id, comment_id>>)
                 /\ nOverlap' = [nOverlap EXCEPT ![p] = 0]
            ELSE /\ result' = [result EXCEPT ![p] = SelectLikes(comments, video_id, comment_id)]
                 /\ failedAt' = [failedAt EXCEPT ![p] = "none"]
                 /\ pc' = [pc EXCEPT ![p] = "selected"]
                 /\ response' = [response EXCEPT ![p] = NoResponse]
                 /\ LikeStarts(p, <<video_id, comment_id>>)
  /\ Written
  /\ UNCHANGED <<scan, variant, replies, clock, uuidsUsed, lastPost>>

LikeUpdate(p) ==
  /\ variant = "plainUpdate"
  /\ pc[p] = "selected"
  /\ \E outcome \in Outcomes :
       /\ Counted(outcome)
       /\ IF outcome # "ok"
            THEN /\ LikeCatch(p, "update", target[p])
                 /\ UNCHANGED <<comments, likesDone>>
            ELSE /\ comments' = UpdateLikes(comments, CurrentLikes(result[p]) + 1,
                                            target[p][1], target[p][2])
                 /\ pc' = [pc EXCEPT ![p] = "idle"]
                 /\ response' = [response EXCEPT ![p] = LikeAddedPlain]
                 /\ result' = [result EXCEPT ![p] = <<>>]
                 /\ likesDone' = [likesDone EXCEPT ![target[p]] = @ + 1]
                 /\ UNCHANGED <<failedAt, disturbed>>
  /\ Written
  /\ UNCHANGED <<scan, variant, replies, clock, uuidsUsed, lastPost, target,
                 likesLeft, removed, nOverlap>>

\* ---------------------------------------------------------------- GET /comments/top

Filters == {Undefined, "top", "newest"}

\* A query-string parameter that may be a number: given or not, and its characters.
NotGiven == [given |-> FALSE, chars |-> <<>>]
Given(chars) == [given |-> TRUE, chars |-> chars]

\* req.query as it reaches the handler; NoQuery where the model does not keep it.
NoQuery ==
  [video_id |-> Undefined, filter |-> Undefined, limit |-> NotGiven, page |-> NotGiven,
   kept |-> FALSE]

NoScan ==
  [st |-> "none", hpc |-> "idle", video_id |-> Undefined, filter |-> Undefined,
   limit |-> 0, token |-> <<>>, page |-> 1, pages |-> <<>>, total |-> 0,
   rows |-> <<>>, atStart |-> {}, writesAt |-> 0, req |-> NoQuery]

Min(a, b) == IF a <= b THEN a ELSE b

\* The partition of a video.
PartitionRows(table, v) == {r \in table : r.video_id = v}

\* SELECT COUNT(*) FROM comments WHERE video_id = ?
CountRows(table, v) == Cardinality(PartitionRows(table, v))

\* Math.ceil(totalComments / limitNumber)
TotalPages(total, limit) == (total + limit - 1) \div limit

\* The clustering key a page state holds: that of the last row returned.
PageState(r) == [likes |-> r.likes, timestamp |-> r.timestamp, comment_id |-> r.comment_id]

\* A resumed query that skips the row behind the page state.
RowsAfterSkipping(table, v, token) ==
  LET rest == InOrder({r \in {x \in table : x.video_id = v} :
                         token = <<>> \/ ClusterBefore(token[1], r)})
  IN IF token = <<>> \/ rest = <<>> THEN rest ELSE Tail(rest)

\* The rows a query resumed from a page state still has to return.
RowsAfter(table, v, token) ==
  InOrder({r \in PartitionRows(table, v) : token = <<>> \/ ClusterBefore(token[1], r)})

\* execute(query, [video_id], {pageState, fetchSize}): one page of the partition
\* in clustering order.
FetchPage(table, v, token, fetchSize) ==
  LET all == RowsAfter(table, v, token)
  IN SubSeq(all, 1, Min(fetchSize, Len(all)))

\* result.pageState: absent once the query is exhausted.  After a full page that
\* happens to end the partition the store may or may not know it is exhausted.
NextPageStates(table, v, token, fetchSize) ==
  LET all == RowsAfter(table, v, token)
      page == FetchPage(table, v, token, fetchSize)
  IN IF Len(page) < fetchSize THEN {<<>>}
     ELSE IF Len(all) > Len(page) THEN {<<PageState(page[Len(page)])>>}
     ELSE {<<>>, <<PageState(page[Len(page)])>>}

\* The requests the client can send next: the first of a scan, or its next page.
ListRequests ==
  IF scan.st = "none"
    THEN {[scan EXCEPT !.st = "open", !.video_id = v, !.filter = f, !.limit = l,
                       !.atStart = PartitionRows(comments, v), !.writesAt = writes]
            : v \in Videos, f \in Filters, l \in 1..MaxLimit}
    ELSE IF scan.st = "open" THEN {scan} ELSE {}

\* The catch block of the handler: a 500, and the client gives the scan up.
ListCatch(s) ==
  scan' = [s EXCEPT !.st = "failed", !.hpc = "idle", !.rows = <<>>]

ListUnchanged ==
  UNCHANGED <<variant, comments, replies, clock, uuidsUsed, lastPost, pc,
              target, result, response, likesLeft, failedAt, removed, nOverlap,
              likesDone, disturbed, writes>>

\* ---- validation of req.query

DigitSeq == <<"0", "1", "2", "3", "4", "5", "6", "7", "8", "9">>
IsDigit(c) == \E i \in 1..Len(DigitSeq) : DigitSeq[i] = c
DigitValue(c) == (CHOOSE i \in 1..Len(DigitSeq) : DigitSeq[i] = c) - 1

\* A JavaScript number: NaN, or an integer.
NaN == [isNaN |-> TRUE, value |-> 0]
Number(n) == [isNaN |-> FALSE, value |-> n]

\* The value of the leading digits of chars, after the digits read so far.
RECURSIVE LeadingDigits(_, _)
LeadingDigits(chars, sofar) ==
  IF chars = <<>> \/ ~IsDigit(Head(chars)) THEN sofar
  ELSE LeadingDigits(Tail(chars), 10 * sofar + DigitValue(Head(chars)))

\* parseInt(string, 10): an optional sign, then the leading digits, whatever
\* follows them; NaN when there is no digit to read.
ParseInt(chars) ==
  LET signed == chars # <<>> /\ Head(chars) \in {"+", "-"}
      digits == IF signed THEN Tail(chars) ELSE chars
  IN IF digits = <<>> \/ ~IsDigit(Head(digits)) THEN NaN
     ELSE IF signed /\ Head(chars) = "-" THEN Number(0 - LeadingDigits(digits, 0))
     ELSE Number(LeadingDigits(digits, 0))

\* const { ..., page = 1, limit = 10 } = req.query, then parseInt(... as string, 10)
DefaultLimit == 10
DefaultPage == 1
LimitNumber(q) == IF q.limit.given THEN ParseInt(q.limit.chars) ELSE Number(DefaultLimit)
PageNumber(q) == IF q.page.given THEN ParseInt(q.page.chars) ELSE Number(DefaultPage)

\* isNaN(n) || n <= 0
NotPositive(n) == n.isNaN \/ n.value <= 0

\* Checks that let any filter through.
ListInvalidAnyFilter(q) ==
  \/ Falsy(q.video_id)
  \/ variant = "plainUpdate" /\ NotPositive(PageNumber(q))
  \/ NotPositive(LimitNumber(q))

\* The checks that end in a 400; the page / LIMIT version checks page as well.
ListInvalid(q) ==
  \/ Falsy(q.video_id)
  \/ ~Falsy(q.filter) /\ q.filter \notin {"newest", "top"}
  \/ variant = "plainUpdate" /\ NotPositive(PageNumber(q))
  \/ NotPositive(LimitNumber(q))

\* The query strings a client sends: each parameter left out, empty, well formed
\* or malformed.
NumberParams ==
  {NotGiven, Given(<<>>), Given(<<"1">>), Given(<<"2">>), Given(<<"0">>),
   Given(<<"-", "1">>), Given(<<"a">>), Given(<<"2", "a">>)}

ListQueries ==
  [video_id : {"v1", "", Undefined},
   filter : {Undefined, "", "top", "newest", "best"},
   limit : NumberParams,
   page : {NotGiven, Given(<<"1">>), Given(<<"0">>)},
   kept : {TRUE}]

\* The first request of a scan, from a query that passed the checks.
FirstRequest(q) ==
  [NoScan EXCEPT !.st = "open", !.video_id = q.video_id, !.filter = q.filter,
                 !.limit = LimitNumber(q).value,
                 !.atStart = PartitionRows(comments, q.video_id),
                 !.writesAt = writes, !.req = q]

\* A request that fails a check: the 400, and no scan begins.
ListRejected(q) ==
  scan' = [NoScan EXCEPT !.st = "rejected", !.req = q]

\* ---- the pageState version: the count, then one page of the query

\* ORDER BY likes DESC, timestamp DESC and no ORDER BY follow the clustering
\* order; ORDER BY timestamp DESC does not, and the store rejects the query.
QueryRejected(filter) == filter = "newest"

\* The handler on a request that passed the checks, up to the count's answer.
ListCountReq(s) ==
  \E outcome \in Outcomes :
    /\ Counted(outcome)
    /\ IF outcome # "ok"
         THEN ListCatch(s)
         ELSE scan' = [s EXCEPT !.hpc = "counted",
                                !.total = CountRows(comments, s.video_id)]

ListCount ==
  /\ variant = "deleteInsert"
  /\ scan.hpc = "idle"
  /\ \E s \in ListRequests : ListCountReq(s)
  /\ ListUnchanged

ListQuery ==
  /\ variant = "deleteInsert"
  /\ scan.hpc = "counted"
  /\ \E outcome \in Outcomes :
       /\ Counted(outcome)
       /\ IF outcome # "ok" \/ QueryRejected(scan.filter)
            THEN ListCatch(scan)
            ELSE \E pageState \in NextPageStates(comments, scan.video_id, scan.token, scan.limit) :
                   scan' = [scan EXCEPT
                     !.hpc = "idle",
                     !.pages = Append(@, FetchPage(comments, scan.video_id, scan.token, scan.limit)),
                     !.token = pageState,
                     !.page = @ + 1,
                     !.st = IF pageState = <<>> THEN "done" ELSE "open"]
  /\ ListUnchanged

\* ---- the page / LIMIT version: the query, then the count and the sort

\* SELECT * FROM comments WHERE video_id = ? LIMIT ?
LimitRows(table, v, limit) ==
  LET all == InOrder(PartitionRows(table, v))
  IN SubSeq(all, 1, Min(limit, Len(all)))

\* A timestamp in a subtraction: null counts as 0.
Millis(r) == IF "timestamp" \in DOMAIN r THEN r.timestamp ELSE 0

\* (a, b) => b.likes - a.likes || b.timestamp - a.timestamp
CompareTop(a, b) ==
  IF b.likes - a.likes # 0 THEN b.likes - a.likes ELSE Millis(b) - Millis(a)

\* (a, b) => b.timestamp - a.timestamp
CompareNewest(a, b) == Millis(b) - Millis(a)

Compare(filter, a, b) ==
  IF filter = "top" THEN CompareTop(a, b) ELSE CompareNewest(a, b)

\* Array.prototype.sort, which is stable: x goes behind every element that does
\* not compare greater than it.
RECURSIVE SortedInsert(_, _, _)
SortedInsert(filter, sorted, x) ==
  IF sorted = <<>> THEN <<x>>
  ELSE IF Compare(filter, sorted[Len(sorted)], x) <= 0 THEN Append(sorted, x)
  ELSE Append(SortedInsert(filter, SubSeq(sorted, 1, Len(sorted) - 1), x),
              sorted[Len(sorted)])

RECURSIVE SortRows(_, _)
SortRows(filter, rows) ==
  IF rows = <<>> THEN <<>>
  ELSE SortedInsert(filter, SortRows(filter, SubSeq(rows, 1, Len(rows) - 1)),
                    rows[Len(rows)])

\* sortedComments: sorted and sliced under a filter, as fetched without one.
SortedComments(filter, rows, limit) ==
  IF filter \in {"top", "newest"}
    THEN LET sorted == SortRows(filter, rows)
         IN SubSeq(sorted, 1, Min(limit, Len(sorted)))
    ELSE rows

\* The handler on a request that passed the checks, up to the query's answer.
ListQueryPlainReq(s) ==
  \E outcome \in Outcomes :
    /\ Counted(outcome)
    /\ IF outcome # "ok"
         THEN ListCatch(s)
         ELSE scan' = [s EXCEPT !.hpc = "queried",
                                !.rows = LimitRows(comments, s.video_id, s.limit)]

ListQueryPlain ==
  /\ variant = "plainUpdate"
  /\ scan.hpc = "idle"
  /\ \E s \in ListRequests : ListQueryPlainReq(s)
  /\ ListUnchanged

ListCountPlain ==
  /\ variant = "plainUpdate"
  /\ scan.hpc = "queried"
  /\ \E outcome \in Outcomes :
       /\ Counted(outcome)
       /\ IF outcome # "ok"
            THEN ListCatch(scan)
            ELSE LET total == CountRows(comments, scan.video_id) IN
                 scan' = [scan EXCEPT
                   !.hpc = "idle",
                   !.rows = <<>>,
                   !.total = total,
                   !.pages = Append(@, SortedComments(scan.filter, scan.rows, scan.limit)),
                   !.page = @ + 1,
                   !.st = IF scan.page >= TotalPages(total, scan.limit) THEN "done" ELSE "open"]
  /\ ListUnchanged

\* The comments of the response to a first request (no pageState, page 1) served
\* from the table as it stands, under a filter the store accepts.
FirstPage(filter, v, limit) ==
  IF variant = "deleteInsert"
    THEN FetchPage(comments, v, <<>>, limit)
    ELSE SortedComments(filter, LimitRows(comments, v, limit), limit)

\* The handler on any first request: the checks, then, for a request that passes
\* them, the first storage call.
ListAny ==
  /\ scan.st = "none"
  /\ scan.hpc = "idle"
  /\ \E q \in ListQueries :
       IF ListInvalid(q)
         THEN ListRejected(q) /\ UNCHANGED faultsLeft
         ELSE IF variant = "deleteInsert"
           THEN ListCountReq(FirstRequest(q))
           ELSE ListQueryPlainReq(FirstRequest(q))
  /\ ListUnchanged

List ==
  \/ ListCount
  \/ ListQuery
  \/ ListQueryPlain
  \/ ListCountPlain

\* ---------------------------------------------------------------- the system

\* The state after construction: empty tables, no request yet.  The clients have
\* `likes` like requests to send and the store may throw `faults` times.
InitWith(variants, likes, faults) ==
  /\ variant \in variants
  /\ comments = {}
  /\ replies = {}
  /\ clock = 1
  /\ uuidsUsed = {}
  /\ lastPost = [op |-> "none", req |-> [user_id |-> Undefined, content |-> Undefined],
                 res |-> NoResponse]
  /\ pc = [p \in Callers |-> "idle"]
  /\ target = [p \in Callers |-> <<Undefined, Undefined>>]
  /\ result = [p \in Callers |-> <<>>]
  /\ response = [p \in Callers |-> NoResponse]
  /\ likesLeft = likes
  /\ faultsLeft = faults
  /\ failedAt = [p \in Callers |-> "none"]
  /\ removed = [p \in Callers |-> 0]
  /\ nOverlap = [p \in Callers |-> 0]
  /\ likesDone = [t \in Videos \X Uuids |-> 0]
  /\ disturbed = [t \in Videos \X Uuids |-> FALSE]
  /\ scan = NoScan
  /\ writes = 0

Init == InitWith(Variants, MaxLikeCalls, MaxFailures)

Like ==
  \E p \in Callers :
    \/ LikeSelect(p)
    \/ LikeDelete(p)
    \/ LikeInsert(p)
    \/ LikeSelectPlain(p)
    \/ LikeUpdate(p)

Next ==
  \/ AddComment
  \/ AddReply
  \/ Like
  \/ List

Spec == Init /\ [][Next]_vars

\* The comment and like handlers, on well-formed requests, over a store that
\* does not throw.
NextLikes ==
  \/ AddValidComment
  \/ Like

SpecLikes == InitWith(Variants, MaxLikeCalls, 0) /\ [][NextLikes]_vars

\* The comment handler with one client liking and one client listing.
NextScan ==
  \/ AddValidComment
  \/ LikeSelect(1)
  \/ LikeDelete(1)
  \/ LikeInsert(1)
  \/ LikeSelectPlain(1)
  \/ LikeUpdate(1)
  \/ List

SpecScan == InitWith(Variants, MaxScanLikes, 0) /\ [][NextScan]_vars

\* The comment and reply handlers, on any request body about one video and one
\* comment_id.
NextPosts ==
  \/ AddCommentAboutOneVideo
  \/ AddReplyAboutOneComment

SpecPosts == InitWith(Variants, 0, MaxPostFailures) /\ [][NextPosts]_vars

\* The delete+insert version serving requests about one video.
NextOneVideo ==
  \/ AddCommentOneVideo
  \/ \E p \in Callers : LikeSelectIn(p, {"v1"})
  \/ \E p \in Callers : LikeDelete(p)
  \/ \E p \in Callers : LikeInsert(p)

SpecOneVideo == InitWith({"deleteInsert"}, MaxLikeCalls, MaxFailures) /\ [][NextOneVideo]_vars

\* The delete+insert version serving requests about one video, replies among
\* them, over a store that does not throw.
NextOneVideoReplies ==
  \/ NextOneVideo
  \/ AddReplyOneComment

SpecOneVideoReplies ==
  InitWith({"deleteInsert"}, MaxLikeCalls, 0) /\ [][NextOneVideoReplies]_vars

\* The list handler on any query string about one video, the store throwing or not.
NextList ==
  \/ AddCommentOneVideo
  \/ ListAny
  \/ List

SpecList == InitWith(Variants, 0, MaxListFailures) /\ [][NextList]_vars

\* Justice for the handlers' continuations: once a storage promise settles, the
\* event loop resumes the handler that awaits it.
SpecOneVideoFair ==
  SpecOneVideo /\ \A p \in Callers : WF_vars(LikeDelete(p)) /\ WF_vars(LikeInsert(p))

\* ---------------------------------------------------------------- properties

\* The rows the comments table holds for (video_id, comment_id).
RowsOf(table, t) == {r \in table : r.video_id = t[1] /\ r.comment_id = t[2]}

\* In this step the like request of p is answered 200.
Completes(p) == pc[p] # "idle" /\ pc'[p] = "idle" /\ response'[p].status = 200

\* In this step a like request of p arrives and its select answers.
Arrives(p) ==
  /\ pc[p] = "idle"
  /\ likesLeft' = likesLeft - 1
  /\ <<pc'[p], target'[p], response'[p], failedAt'[p]>> #
       <<pc[p], target[p], response[p], failedAt[p]>>

\* C1: like requests on a comment that addComment created, issued one after the
\* other with no storage failure: the i-th is answered with likes = i, and the
\* stored likes is then i.
C1_SequentialLikes ==
  [][\A p \in Callers :
       (/\ Completes(p)
        /\ ~disturbed'[target[p]]
        /\ \E r \in RowsOf(comments', target[p]) : "user_id" \in DOMAIN r)
       => /\ "likes" \in DOMAIN response'[p].body
          /\ response'[p].body.likes = likesDone'[target[p]]
          /\ {r.likes : r \in RowsOf(comments', target[p])} = {likesDone'[target[p]]}
    ]_vars

\* The same of the delete+insert version alone, which answers with the count.
SequentialLikesDeleteInsert ==
  [][\A p \in Callers :
       (/\ variant = "deleteInsert"
        /\ Completes(p)
        /\ ~disturbed'[target[p]])
       => /\ response'[p].body.likes = likesDone'[target[p]]
          /\ {r.likes : r \in RowsOf(comments', target[p])} = {likesDone'[target[p]]}
    ]_vars

\* C2: two like requests that both read the comment at likes = n, with no third
\* request on it meanwhile and no row of it in the table but the one the first
\* wrote: when the second is answered, the comment has one row, with likes = n + 1;
\* both are answered n + 1; only one delete removed a row.
C2_LostUpdate ==
  [][\A p, q \in Callers :
       (/\ variant = "deleteInsert"
        /\ p # q
        /\ Completes(p)
        /\ Len(result[p]) = 1
        /\ pc[q] = "idle" /\ response[q].status = 200
        /\ target[q] = target[p]
        /\ response[q].body.likes = result[p][1].likes + 1
        /\ nOverlap[p] = 1 /\ nOverlap[q] = 1
        /\ Cardinality(RowsOf(comments, target[p])) <= 1)
       => /\ response'[p].body.likes = result[p][1].likes + 1
          /\ Cardinality(RowsOf(comments', target[p])) = 1
          /\ \A r \in RowsOf(comments', target[p]) : r.likes = result[p][1].likes + 1
          /\ removed[p] + removed[q] = 1
    ]_vars

C2_Witness ==
  \E p, q \in Callers :
    /\ variant = "deleteInsert" /\ p # q
    /\ pc[p] = "idle" /\ pc[q] = "idle"
    /\ response[p].status = 200 /\ response[q].status = 200
    /\ target[p] = target[q]
    /\ response[p].body.likes = 2 /\ response[q].body.likes = 2
    /\ nOverlap[p] = 1 /\ nOverlap[q] = 1
    /\ removed[p] + removed[q] = 1
    /\ \A r \in RowsOf(comments, target[p]) : r.likes = 2

\* C3: the comments table never holds two rows for one (video_id, comment_id).
C3_OneRowPerComment ==
  \A t \in Videos \X Uuids : Cardinality(RowsOf(comments, t)) <= 1

\* The items of the pages a scan has returned, in the order returned.
RECURSIVE Flatten(_)
Flatten(pages) ==
  IF pages = <<>> THEN <<>> ELSE pages[1] \o Flatten(Tail(pages))

\* BY_POPULARITY_DESC ranks a above b: more likes, then the later created_at (a row
\* with none counting as the oldest), then the smaller comment_id.
RankedAbove(a, b) ==
  \/ a.likes > b.likes
  \/ a.likes = b.likes /\ Millis(a) > Millis(b)
  \/ a.likes = b.likes /\ Millis(a) = Millis(b)
       /\ UuidRank(a.comment_id) < UuidRank(b.comment_id)

\* No comments row has been written since the scan began.
QuietScan == scan.st # "none" /\ writes = scan.writesAt

\* C4: listing with filter=top while nothing writes: no item returned, in the same
\* page or in a later one, is ranked above an item returned before it.
C4_TopOrder ==
  (QuietScan /\ scan.filter = "top")
    => LET items == Flatten(scan.pages) IN
       \A i, j \in 1..Len(items) : i < j => ~RankedAbove(items[j], items[i])

\* C5: a scan that ran to its last page while nothing wrote: every page holds at
\* most limit items, and the pages together hold the rows the video had when the
\* scan began, each once.
C5_LosslessPages ==
  QuietScan
    => LET items == Flatten(scan.pages) IN
       /\ \A k \in 1..Len(scan.pages) : Len(scan.pages[k]) <= scan.limit
       /\ scan.st = "done"
            => /\ {items[i] : i \in 1..Len(items)} = scan.atStart
               /\ Len(items) = Cardinality(scan.atStart)

\* C6: right after a POST /comments with all three fields is answered 201, the
\* table holds one row for (video_id, returned comment_id): likes 0, replies_count
\* 0, the fields as submitted; the id is one no earlier call was given.
C6_AddThenLookup ==
  [][\A id \in Uuids :
       (lastPost'.op = "comment" /\ lastPost'.res.status = 201
        /\ lastPost'.res.body.comment_id = id /\ lastPost' # lastPost)
       => LET rows == RowsOf(comments', <<lastPost'.req.video_id, id>>) IN
          /\ id \notin uuidsUsed
          /\ Cardinality(rows) = 1
          /\ \A r \in rows :
               /\ r.likes = 0
               /\ r.replies_count = 0
               /\ r.user_id = lastPost'.req.user_id
               /\ r.content = lastPost'.req.content
    ]_vars

C6_Witness ==
  /\ lastPost.op = "comment" /\ lastPost.res.status = 201
  /\ Cardinality(uuidsUsed \cap Uuids) >= 2
  /\ \E r \in comments :
       /\ r.comment_id = lastPost.res.body.comment_id
       /\ r.video_id = lastPost.req.video_id
       /\ r.likes = 0
  /\ \E r \in comments : r.likes > 0

\* C7: a like request whose select finds no row is answered 404, and the comments
\* table is the same after it as before.
C7_LikeNotFound ==
  [][\A p \in Callers :
       (/\ Arrives(p)
        /\ RowsOf(comments, target'[p]) = {}
        /\ failedAt'[p] = "none")
       => /\ pc'[p] = "idle"
          /\ response'[p] = LikeNotFound
          /\ comments' = comments
    ]_vars

\* C8: a like request whose insert threw after its delete went through is answered
\* differently from one whose select or delete threw.
C8_PartialRankChange ==
  \A p, q \in Callers :
    (failedAt[p] = "insert" /\ failedAt[q] \in {"select", "delete"})
      => response[p] # response[q]

\* C9: a like request that has issued its delete goes on to issue its insert, of
\* the comment_id and timestamp it read; nothing but that insert ends the wait.
C9_DeleteThenInsert ==
  /\ \A p \in Callers :
       (pc[p] = "deleted") ~> (pc[p] = "idle" /\ (response[p].status = 200 \/ failedAt[p] = "insert"))
  /\ [][\A p \in Callers :
          (pc[p] = "deleted" /\ pc'[p] # "deleted")
            => /\ pc'[p] = "idle"
               /\ \/ failedAt'[p] = "insert"
                  \/ \E r \in comments' :
                       /\ r.comment_id = result[p][1].comment_id
                       /\ r.timestamp = result[p][1].timestamp
                       /\ r.likes = result[p][1].likes + 1
       ]_vars

C9_Witness ==
  \E p \in Callers :
    /\ pc[p] = "idle" /\ response[p].status = 200 /\ removed[p] = 1
    /\ variant = "deleteInsert"
    /\ \E r \in RowsOf(comments, target[p]) : r.likes = response[p].body.likes

\* C10: a POST /comments or POST replies whose body has an empty or missing field
\* is answered 400 with no id, and no storage call is made: both tables, and the
\* number of storage calls that can still throw, are as before.
C10_ValidationError ==
  [][(/\ lastPost' # lastPost
      /\ \/ lastPost'.op = "comment" /\ Falsy(lastPost'.req.video_id)
         \/ lastPost'.op = "reply" /\ Falsy(lastPost'.req.comment_id)
         \/ Falsy(lastPost'.req.user_id)
         \/ Falsy(lastPost'.req.content))
     => /\ lastPost'.res.status = 400
        /\ DOMAIN lastPost'.res.body = {"error"}
        /\ comments' = comments
        /\ replies' = replies
        /\ uuidsUsed' = uuidsUsed
        /\ faultsLeft' = faultsLeft
    ]_vars

C10_Witness ==
  /\ lastPost.op = "comment"
  /\ lastPost.res.status = 400
  /\ lastPost.req.content = "" /\ lastPost.req.user_id = "u1"
  /\ comments # {} /\ replies # {}

\* In this step a POST replies with all three fields is handled.
RepliesTo(id) ==
  /\ lastPost' # lastPost
  /\ lastPost'.op = "reply"
  /\ lastPost'.req.comment_id = id
  /\ ~Falsy(lastPost'.req.user_id)
  /\ ~Falsy(lastPost'.req.content)

\* C11: a POST replies naming a comment_id that no comments row carries, served
\* without a storage failure, is answered 404 and writes no replies row.
C11_ReplyNotFound ==
  [][\A id \in Uuids :
       (/\ RepliesTo(id)
        /\ faultsLeft' = faultsLeft
        /\ ~\E r \in comments : r.comment_id = id)
       => /\ lastPost'.res.status = 404
          /\ replies' = replies
    ]_vars

\* C12: the total a page comes with is never negative, and once a scan has run to
\* its last page while nothing wrote, it is the number of items the pages hold.
C12_CountMatchesDrain ==
  /\ scan.total >= 0
  /\ (QuietScan /\ scan.st = "done")
       => scan.total = Len(Flatten(scan.pages))

\* C13: the first page of a listing with filter=newest, nothing writing meanwhile:
\* its items are in non-increasing created_at order, and no comment of the video
\* left out of it is more recent than a comment it holds.
C13_NewestFirst ==
  (QuietScan /\ scan.filter = "newest" /\ Len(scan.pages) >= 1)
    => LET first == scan.pages[1]
           held == {first[i] : i \in 1..Len(first)}
       IN /\ \A i, j \in 1..Len(first) : i < j => Millis(first[i]) >= Millis(first[j])
          /\ \A r \in scan.atStart \ held : \A x \in held : Millis(r) <= Millis(x)

\* C14: the first page of a listing sent without a filter, nothing writing
\* meanwhile, is the page the same request gets with filter=top: the same
\* comments in the same order.
C14_NoFilterIsTop ==
  (QuietScan /\ scan.filter = Undefined /\ Len(scan.pages) >= 1)
    => scan.pages[1] = FirstPage("top", scan.video_id, scan.limit)

\* C15: a like request on a comment whose row another like request has read and
\* deleted and not yet inserted again, served without a storage failure, is not
\* answered 404.
C15_NoTransientNotFound ==
  [][\A p \in Callers :
       (/\ Arrives(p)
        /\ failedAt'[p] = "none"
        /\ \E q \in Callers \ {p} : pc[q] = "deleted" /\ target[q] = target'[p])
       => response'[p].status # 404
    ]_vars

\* C16: a like request that is answered 200.  Its delete removes nothing but the
\* row of the tuple (video_id, likes read, created_at read, comment_id); its insert
\* adds nothing but the row read with other likes, and removes nothing; neither
\* touches a row of another comment or a replies row.
C16_LikeFrame ==
  [][\A p \in Callers :
       /\ (pc[p] = "selected" /\ pc'[p] = "deleted")
            => /\ comments' \subseteq comments
               /\ \A r \in comments \ comments' :
                    /\ r.video_id = target[p][1]
                    /\ r.comment_id = target[p][2]
                    /\ r.likes = result[p][1].likes
                    /\ r.timestamp = result[p][1].timestamp
               /\ replies' = replies
       /\ (pc[p] = "deleted" /\ Completes(p))
            => /\ comments \subseteq comments'
               /\ \E r \in comments' :
                    /\ r.likes # result[p][1].likes
                    /\ [r EXCEPT !.likes = result[p][1].likes] = result[p][1]
               /\ \A r \in comments' \ comments :
                    [r EXCEPT !.likes = result[p][1].likes] = result[p][1]
               /\ replies' = replies
       /\ \A t \in (Videos \X Uuids) \ {target[p]} :
            (pc[p] # "idle" /\ pc'[p] # pc[p])
              => RowsOf(comments', t) = RowsOf(comments, t)
    ]_vars

C16_Witness ==
  \E p \in Callers :
    /\ pc[p] = "idle" /\ response[p].status = 200 /\ removed[p] = 1
    /\ replies # {}
    /\ \E r \in comments : r.comment_id = target[p][2] /\ r.likes = 1
    /\ \E r \in comments : r.comment_id # target[p][2]

\* C17: over a store that does not throw, whenever no like request stands between
\* its delete and its insert, the table holds a row, as POST /comments wrote it but
\* for its likes, of every comment_id that POST /comments has returned.
C17_NoLostComment ==
  (\A p \in Callers : pc[p] # "deleted")
    => \A id \in uuidsUsed \cap Uuids :
         \E r \in comments : r.comment_id = id /\ "user_id" \in DOMAIN r

C17_Witness ==
  /\ \A p \in Callers : pc[p] = "idle"
  /\ Cardinality(uuidsUsed \cap Uuids) >= 2
  /\ \E p, q \in Callers :
       /\ p # q /\ target[p] = target[q]
       /\ removed[p] = 1 /\ removed[q] = 0
       /\ response[p].status = 200 /\ response[q].status = 200
       /\ nOverlap[q] >= 1

\* How many times a row occurs in a sequence of rows.
Occurrences(items, r) == Cardinality({i \in 1..Len(items) : items[i] = r})

\* C18: a scan of the pageState version that ran to its last page while comments
\* were added and liked: every row the video had when the scan began that is
\* still in the table as it was, with no like request at work on it, is in the
\* pages once.
C18_ScanUnderLikes ==
  (variant = "deleteInsert" /\ scan.st = "done")
    => \A r \in scan.atStart :
         (r \in comments /\ InFlight(0, <<r.video_id, r.comment_id>>) = {})
           => Occurrences(Flatten(scan.pages), r) = 1

C18_Witness ==
  /\ variant = "deleteInsert" /\ scan.st = "done" /\ scan.filter = "top"
  /\ Len(scan.pages) >= 2
  /\ \A p \in Callers : pc[p] = "idle"
  /\ \E r \in scan.atStart : r \in comments
  /\ \E r \in scan.atStart : r \notin comments /\ Occurrences(Flatten(scan.pages), r) = 0

\* In this step the list handler takes the first request of a client, whose query
\* string is q.
Lists(q) == scan.st = "none" /\ scan'.st # "none" /\ scan'.req = q

\* C19: a GET /comments/top with no video_id (or an empty one), with a filter
\* that is given, not empty, and neither newest nor top, or with a limit that does
\* not parse to an integer above 0, is answered 400 and makes no storage call; any
\* other (with a page that parses to an integer above 0, where the version reads
\* page) goes on to its first storage call, and from its answer to the second.
C19_ListValidation ==
  [][\A q \in ListQueries :
       Lists(q) =>
         IF \/ Falsy(q.video_id)
            \/ ~Falsy(q.filter) /\ q.filter \notin {"newest", "top"}
            \/ LimitNumber(q).isNaN
            \/ LimitNumber(q).value <= 0
           THEN /\ scan'.st = "rejected"
                /\ scan'.hpc = "idle"
                /\ faultsLeft' = faultsLeft
           ELSE (variant = "plainUpdate" => ~NotPositive(PageNumber(q)))
                  => \/ scan'.st = "failed" /\ faultsLeft' = faultsLeft - 1
                     \/ scan'.st = "open" /\ scan'.hpc \in {"counted", "queried"}
    ]_vars

C19_Witness ==
  /\ scan.st = "rejected"
  /\ scan.req.video_id = "v1" /\ scan.req.filter = "top"
  /\ scan.req.limit = Given(<<"0">>)
  /\ comments # {}

\* C20: a POST replies that is answered 201 adds one row to the replies table and
\* takes none away: the row of (comment_id, returned reply_id), a reply_id not
\* given out before, with the user_id and content submitted; the comments table,
\* the parent comment's row in it, is as before.
C20_ReplyFrame ==
  [][\A id \in Uuids :
       (RepliesTo(id) /\ lastPost'.res.status = 201)
       => /\ \E r \in replies' \ replies :
               /\ replies' = replies \cup {r}
               /\ r.comment_id = id
               /\ r.reply_id = lastPost'.res.body.reply_id
               /\ r.reply_id \notin uuidsUsed
               /\ r.user_id = lastPost'.req.user_id
               /\ r.content = lastPost'.req.content
          /\ comments' = comments
    ]_vars

C20_Witness ==
  /\ lastPost.op = "reply" /\ lastPost.res.status = 201
  /\ Cardinality(replies) = 2
  /\ \A r \in replies : r.comment_id = lastPost.req.comment_id
  /\ \E r \in comments : r.comment_id = lastPost.req.comment_id /\ r.likes >= 1

====
